---- MODULE Spec2Model ----
(***************************************************************************)
(* Model of loto_cli: ticket generation (src/main.rs), the oracle engine   *)
(* (src/oracle.rs) and its nine divination modules (src/oracle_modules.rs).*)
(* Weights are f64 in the source; here they are exact rationals <<n, d>>   *)
(* in lowest terms with d > 0, so rounding in the last place is not seen.  *)
(***************************************************************************)
EXTENDS Integers, Sequences, FiniteSets, TLC

VARIABLES
    cli,              \* parsed command line: algo, max, picks, n, optional facts
    now_utc,          \* the wall-clock date read by from_args: [day, month]
    stdin_reads,      \* history: the calls of io::stdin().read_line made so far
    chaos_seed,       \* divine: the seed ChaosModule::apply computed in this call
    overflow_checks,  \* build profile: TRUE = debug (overflow panics), FALSE = release (wraps)
    pc,               \* position in main / generate_ticket / divine
    oracle_ctx,       \* Option<OracleContext>
    oracle_engine,    \* Option<OracleEngine>: the module list
    draw,             \* loop variable i of main's ticket loop
    weights,          \* divine: the weight vector, index 0..max
    module_idx,       \* divine: number of modules of self.modules already applied
    trace,            \* history: the steps of the current divine call that took effect, in order
    dist,             \* divine: the WeightedIndex over valid_weights
    result,           \* divine: the partial result, in push order
    number,           \* divine: the number drawn last in the sampling loop
    ticket            \* the ticket generate_ticket returned

vars == <<cli, now_utc, overflow_checks, stdin_reads, chaos_seed, pc, oracle_ctx,
          oracle_engine, draw, weights, module_idx, trace, dist, result, number, ticket>>

None == <<>>

Some(x) == <<x>>

IsSome(o) == o # <<>>

Unwrap(o) == o[1]

-----------------------------------------------------------------------------
(* Bounds of the model *)

MaxMax == 11          \* largest domain size of the accumulator specification
MaxSampleMax == 3     \* largest domain size where the sampling loop is explored
MaxN == 2             \* largest batch size (--n)
NumBirthDates == 5    \* birth dates tried
NumNowDays == 6       \* current days 6, 11, .. tried: every fifth day of the month
NumBatchDays == 2     \* how many of those days the batch specification tries
NumNanos == 2         \* sub-second clock readings tried by the entropy rule
MaxScale == 3         \* scaling constants 1 .. MaxScale of the normalization check
MaxWeightNum == 2     \* weights 0, 1/2, .., MaxWeightNum/2 of the sampler specification
MaxSamplerMax == 3    \* largest domain size of the sampler specification
NumResonances == 1    \* observer resonances (time waited at the prompt) tried

-----------------------------------------------------------------------------
(* Integer helpers *)

Abs(a) == IF a < 0 THEN -a ELSE a

RECURSIVE Gcd(_, _)
Gcd(a, b) == IF b = 0 THEN a ELSE Gcd(b, a % b)

\* Rust's % on signed integers truncates toward zero
RustRem(a, b) == IF a >= 0 THEN a % b ELSE 0 - ((0 - a) % b)

\* (n as f64).sqrt() as u32 : the integer part of the square root
RECURSIVE ISqrtFrom(_, _)
ISqrtFrom(n, r) == IF (r + 1) * (r + 1) > n THEN r ELSE ISqrtFrom(n, r + 1)
ISqrt(n) == ISqrtFrom(n, 0)

-----------------------------------------------------------------------------
(* Exact rationals standing for f64 values *)

Rat(n, d) ==
    LET s == IF d < 0 THEN -1 ELSE 1
        g == Gcd(Abs(n), Abs(d))
    IN  <<(s * n) \div g, (s * d) \div g>>

RInt(k) == <<k, 1>>

RMul(a, b) ==
    LET g1 == Gcd(Abs(a[1]), b[2])
        g2 == Gcd(Abs(b[1]), a[2])
    IN  IF a[1] = 0 \/ b[1] = 0 THEN <<0, 1>>
        ELSE <<(a[1] \div g1) * (b[1] \div g2), (a[2] \div g2) * (b[2] \div g1)>>

RAdd(a, b) ==
    LET g == Gcd(a[2], b[2])
    IN  Rat((a[1] * (b[2] \div g)) + (b[1] * (a[2] \div g)), (a[2] \div g) * b[2])

RDiv(a, b) == RMul(a, IF b[1] < 0 THEN <<0 - b[2], 0 - b[1]>> ELSE <<b[2], b[1]>>)

RPos(a) == a[1] > 0

RNeg(a) == a[1] < 0

RLess(a, b) == (a[1] * b[2]) < (b[1] * a[2])

\* w[lo] + .. + w[hi], added pairwise: exact sums do not depend on the order
RECURSIVE RSumRange(_, _, _)
RSumRange(w, lo, hi) ==
    IF lo > hi THEN <<0, 1>>
    ELSE IF lo = hi THEN w[lo]
    ELSE RAdd(RSumRange(w, lo, (lo + hi) \div 2), RSumRange(w, ((lo + hi) \div 2) + 1, hi))

RSumFrom(w, i) == RSumRange(w, 1, i)

-----------------------------------------------------------------------------
(* u64 values as 8 bytes, least significant first *)

RECURSIVE XorNat(_, _)
XorNat(a, b) ==
    IF a = 0 THEN b
    ELSE IF b = 0 THEN a
    ELSE (((a % 2) + (b % 2)) % 2) + (2 * XorNat(a \div 2, b \div 2))

RECURSIVE BytesOf(_, _)
BytesOf(n, k) == IF k = 0 THEN <<>> ELSE <<n % 256>> \o BytesOf(n \div 256, k - 1)

\* `v as u64` for a value that fits the model's integers
U64(n) == BytesOf(n, 8)

Xor64(a, b) == [k \in 1..8 |-> XorNat(a[k], b[k])]

RECURSIVE ConvSum(_, _, _, _)
ConvSum(a, b, k, i) ==
    IF i = 0 THEN 0 ELSE (a[i] * b[(k + 1) - i]) + ConvSum(a, b, k, i - 1)

RECURSIVE MulFrom(_, _, _, _)
MulFrom(a, b, k, carry) ==
    IF k > 8 THEN <<>>
    ELSE LET t == ConvSum(a, b, k, k) + carry
         IN  <<t % 256>> \o MulFrom(a, b, k + 1, t \div 256)

\* u64::wrapping_mul: the product modulo 2^64
WrappingMul(a, b) == MulFrom(a, b, 1, 0)

ByteAt(x, k) == IF k <= 8 THEN x[k] ELSE 0

\* x >> 12 : one whole byte and four more bits
Shr12(x) == [k \in 1..8 |-> (ByteAt(x, k + 1) \div 16) + ((ByteAt(x, k + 2) % 16) * 16)]

RECURSIVE Mod100From(_, _)
Mod100From(x, k) == IF k > 8 THEN 0 ELSE ((Mod100From(x, k + 1) * 256) + x[k]) % 100

\* x % 100
Mod100(x) == Mod100From(x, 1)

\* 0x517cc1b727220a95
ChaosMultiplier == <<149, 10, 34, 39, 183, 193, 124, 81>>

\* the per-index perturbation of ChaosModule, as the numerator over 1000
ChaosNoise(seed, i) ==
    LET x0 == WrappingMul(Xor64(seed, U64(i)), ChaosMultiplier)
        x1 == Xor64(x0, Shr12(x0))
    IN  Mod100(x1)

\* weights.as_ptr() as usize: an address of the heap
WeightPtrs == {<<160, 178, 163, 200, 208, 85, 0, 0>>}

\* chrono::Utc::now().timestamp_subsec_nanos()
SubsecNanos == {k * 123456789 : k \in 0..(NumNanos - 1)}

\* seed = (p as u64) ^ (t as u64)
ChaosSeeds == {Xor64(p, U64(t)) : p \in WeightPtrs, t \in SubsecNanos}

-----------------------------------------------------------------------------
(* Enums of oracle.rs *)

BloodType == {"A", "B", "O", "AB"}

AuraColor == {"Red", "Blue", "Green", "Gold", "Purple", "White", "Black"}

MoonPhase == {"New", "Waxing", "Full", "Waning"}

Rokuyo == {"Taian", "Butsumetsu", "Tomobiki", "Senkatsu", "Senbu", "Shakku"}

-----------------------------------------------------------------------------
(* Fact derivation, oracle.rs *)

derive_western_zodiac(d) ==
    CASE d.month = 3 -> IF d.day >= 21 THEN "Aries" ELSE "Pisces"
      [] d.month = 4 -> IF d.day >= 20 THEN "Taurus" ELSE "Aries"
      [] d.month = 5 -> IF d.day >= 21 THEN "Gemini" ELSE "Taurus"
      [] d.month = 6 -> IF d.day >= 22 THEN "Cancer" ELSE "Gemini"
      [] d.month = 7 -> IF d.day >= 23 THEN "Leo" ELSE "Cancer"
      [] d.month = 8 -> IF d.day >= 23 THEN "Virgo" ELSE "Leo"
      [] d.month = 9 -> IF d.day >= 23 THEN "Libra" ELSE "Virgo"
      [] d.month = 10 -> IF d.day >= 24 THEN "Scorpio" ELSE "Libra"
      [] d.month = 11 -> IF d.day >= 23 THEN "Sagittarius" ELSE "Scorpio"
      [] d.month = 12 -> IF d.day >= 22 THEN "Capricorn" ELSE "Sagittarius"
      [] d.month = 1 -> IF d.day >= 20 THEN "Aquarius" ELSE "Capricorn"
      [] d.month = 2 -> IF d.day >= 19 THEN "Pisces" ELSE "Aquarius"
      [] OTHER -> "Aries"

derive_chinese_zodiac(year) ==
    LET r == RustRem(year - 4, 12)
    IN  CASE r = 0 -> "Rat"
          [] r = 1 -> "Ox"
          [] r = 2 -> "Tiger"
          [] r = 3 -> "Rabbit"
          [] r = 4 -> "Dragon"
          [] r = 5 -> "Snake"
          [] r = 6 -> "Horse"
          [] r = 7 -> "Goat"
          [] r = 8 -> "Monkey"
          [] r = 9 -> "Rooster"
          [] r = 10 -> "Dog"
          [] OTHER -> "Pig"

derive_rokuyo(now) ==
    LET r == now.day % 6
    IN  CASE r = 0 -> "Taian"
          [] r = 1 -> "Butsumetsu"
          [] r = 2 -> "Tomobiki"
          [] r = 3 -> "Senkatsu"
          [] r = 4 -> "Senbu"
          [] OTHER -> "Shakku"

derive_moon_phase(now) ==
    LET day == now.day % 30
    IN  IF day < 7 THEN "New"
        ELSE IF day < 15 THEN "Waxing"
        ELSE IF day < 22 THEN "Full"
        ELSE "Waning"

\* resonance as u64, of elapsed ^ timestamp: lines 152-154
Resonances(k) == {U64(r * 1000003) : r \in 1..k}

\* 0xCAFEBABE
FingerprintMask == <<190, 186, 254, 202, 0, 0, 0, 0>>

\* OracleContext::from_args: the fields the modules can read
from_args(max, count, birth_date, blood_type, aura_color, now, resonance) ==
    [max |-> max,
     count |-> count,
     now_utc |-> now,
     host_fingerprint |-> Xor64(FingerprintMask, resonance),
     birth_date |-> birth_date,
     blood_type |-> blood_type,
     aura_color |-> aura_color,
     western_zodiac |-> IF IsSome(birth_date)
                        THEN Some(derive_western_zodiac(Unwrap(birth_date))) ELSE None,
     chinese_zodiac |-> IF IsSome(birth_date)
                        THEN Some(derive_chinese_zodiac(Unwrap(birth_date).year)) ELSE None,
     rokuyo |-> derive_rokuyo(now),
     moon_phase |-> derive_moon_phase(now)]

-----------------------------------------------------------------------------
(* The divination modules, oracle_modules.rs.  Each apply returns            *)
(* [panic, w]: whether the call panicked, and the weights it leaves.         *)

Ok(w) == [panic |-> FALSE, w |-> w]

Panicked(w) == [panic |-> TRUE, w |-> w]

\* weights[i] *= f for every i of S, in a slice with bounds checks
ScaleAt(w, S, f) ==
    IF S \subseteq DOMAIN w
    THEN Ok([i \in DOMAIN w |-> IF i \in S THEN RMul(w[i], f) ELSE w[i]])
    ELSE Panicked(w)

\* one apply step after another; a panic ends the call
AndThen(r, S, f) == IF r.panic THEN r ELSE ScaleAt(r.w, S, f)

\* weights.len()
WLen(w) == Cardinality(DOMAIN w)

is_prime(n) ==
    IF n <= 1 THEN FALSE
    ELSE \A i \in 2..ISqrt(n) : n % i # 0

\* the match on the sign, lines 16-62
WesternSign(sign, w) ==
    LET range_len == WLen(w) - 1
    IN  CASE sign = "Aries" ->
               AndThen(ScaleAt(w, {i \in 1..range_len : i > ((range_len * 7) \div 10)},
                               Rat(12, 10)),
                       {i \in 1..range_len : is_prime(i)}, Rat(13, 10))
          [] sign = "Taurus" ->
               AndThen(ScaleAt(w, {i \in 1..range_len : i <= (range_len \div 2)},
                               Rat(12, 10)),
                       {i \in 1..range_len : i % 5 = 0}, Rat(13, 10))
          [] sign = "Gemini" ->
               ScaleAt(w, {i \in 1..range_len : i > 10 /\ i % 11 = 0}, Rat(15, 10))
          [] sign = "Cancer" ->
               ScaleAt(w, {i \in 1..range_len : i <= (range_len \div 3)}, Rat(13, 10))
          [] OTHER -> Ok(w)

\* a variant that takes an absent sign for Aries
WesternAstrology_always(ctx, w) ==
    WesternSign(IF IsSome(ctx.western_zodiac) THEN Unwrap(ctx.western_zodiac) ELSE "Aries", w)

WesternAstrology_apply(ctx, w) ==
    IF IsSome(ctx.western_zodiac) THEN WesternSign(Unwrap(ctx.western_zodiac), w) ELSE Ok(w)

\* usize::saturating_sub
saturating_sub(a, b) == IF a >= b THEN a - b ELSE 0

ChineseZodiacModule_apply(ctx, w) ==
    IF IsSome(ctx.chinese_zodiac)
    THEN LET zodiac == Unwrap(ctx.chinese_zodiac)
             range_len == WLen(w) - 1
         IN  CASE zodiac = "Dragon" ->
                    ScaleAt(w, {i \in 1..range_len : i > saturating_sub(range_len, 10)},
                            Rat(15, 10))
               [] zodiac = "Rat" ->
                    ScaleAt(w, {i \in 1..10 : i < WLen(w)}, Rat(14, 10))
               [] zodiac = "Tiger" ->
                    ScaleAt(w, {i \in 1..range_len : i % 2 # 0}, Rat(12, 10))
               [] OTHER -> Ok(w)
    ELSE Ok(w)

SanmeiModule_apply(ctx, w) ==
    IF IsSome(ctx.birth_date)
    THEN LET stem == RustRem(Unwrap(ctx.birth_date).year, 10)
             idx == 1..(WLen(w) - 1)
         IN  CASE stem \in {4, 5} -> ScaleAt(w, {i \in idx : i % 3 = 0}, Rat(12, 10))
               [] stem \in {6, 7} ->
                    ScaleAt(w, {i \in idx : ((i \div 10) + (i % 10)) > 5}, Rat(12, 10))
               [] stem \in {8, 9} -> ScaleAt(w, idx, Rat(105, 100))
               [] stem \in {0, 1} -> ScaleAt(w, {i \in idx : i % 2 = 0}, Rat(12, 10))
               [] stem \in {2, 3} ->
                    ScaleAt(w, {i \in idx : (i % 10) \in {2, 3, 8}}, Rat(12, 10))
               [] OTHER -> Ok(w)
    ELSE Ok(w)

\* weights[i] *= factor[i] for every i the function factor is defined at
RampAt(w, factor) ==
    IF DOMAIN factor \subseteq DOMAIN w
    THEN Ok([i \in DOMAIN w |-> IF i \in DOMAIN factor THEN RMul(w[i], factor[i]) ELSE w[i]])
    ELSE Panicked(w)

\* 1.0 + (i / range_len) * 0.3
WaxingFactor(i, range_len) == RAdd(RInt(1), RMul(Rat(i, range_len), Rat(3, 10)))

\* a variant with 0.3 for 1.3
WaningFactor_typo(i, range_len) ==
    RAdd(Rat(3, 10), RMul(Rat(0 - i, range_len), Rat(3, 10)))

\* 1.3 - (i / range_len) * 0.3
WaningFactor(i, range_len) ==
    RAdd(Rat(13, 10), RMul(Rat(0 - i, range_len), Rat(3, 10)))

MoonPhaseModule_apply(ctx, w) ==
    LET range_len == WLen(w) - 1
    IN  CASE ctx.moon_phase = "New" -> ScaleAt(w, 1..(range_len \div 2), Rat(12, 10))
          [] ctx.moon_phase = "Waxing" ->
               RampAt(w, [i \in 1..range_len |-> WaxingFactor(i, range_len)])
          [] ctx.moon_phase = "Full" ->
               ScaleAt(w, (range_len \div 2)..range_len, Rat(125, 100))
          [] ctx.moon_phase = "Waning" ->
               RampAt(w, [i \in 1..range_len |-> WaningFactor(i, range_len)])

\* a variant whose second half starts one index late
RokuyoModule_gap(ctx, w) ==
    LET len == WLen(w)
        mid == len \div 2
    IN  CASE ctx.rokuyo = "Taian" ->
               ScaleAt(w, {i \in 1..(len - 1) : i % 2 = 0}, Rat(115, 100))
          [] ctx.rokuyo = "Butsumetsu" ->
               IF len > 10
               THEN AndThen(ScaleAt(w, {1}, Rat(8, 10)), {len - 1}, Rat(8, 10))
               ELSE Ok(w)
          [] ctx.rokuyo = "Senkatsu" -> ScaleAt(w, 1..(mid - 1), Rat(12, 10))
          [] ctx.rokuyo = "Senbu" -> ScaleAt(w, (mid + 1)..(len - 1), Rat(12, 10))
          [] OTHER -> Ok(w)

RokuyoModule_apply(ctx, w) ==
    LET len == WLen(w)
        mid == len \div 2
    IN  CASE ctx.rokuyo = "Taian" ->
               ScaleAt(w, {i \in 1..(len - 1) : i % 2 = 0}, Rat(115, 100))
          [] ctx.rokuyo = "Butsumetsu" ->
               IF len > 10
               THEN AndThen(ScaleAt(w, {1}, Rat(8, 10)), {len - 1}, Rat(8, 10))
               ELSE Ok(w)
          [] ctx.rokuyo = "Senkatsu" -> ScaleAt(w, 1..(mid - 1), Rat(12, 10))
          [] ctx.rokuyo = "Senbu" -> ScaleAt(w, mid..(len - 1), Rat(12, 10))
          [] OTHER -> Ok(w)

FengShuiModule_apply(ctx, w) ==
    IF IsSome(ctx.aura_color)
    THEN LET aura == Unwrap(ctx.aura_color)
             range_len == WLen(w) - 1
             quadrant_size == range_len \div 4
         IN  CASE aura = "Red" ->
                    ScaleAt(w, {i \in (quadrant_size * 2)..((quadrant_size * 3) - 1) :
                                    i < WLen(w)}, Rat(13, 10))
               [] aura = "Gold" ->
                    ScaleAt(w, (quadrant_size * 3)..(WLen(w) - 1), Rat(13, 10))
               [] aura = "Green" -> ScaleAt(w, 1..(quadrant_size - 1), Rat(13, 10))
               [] aura = "Blue" ->
                    ScaleAt(w, {i \in quadrant_size..((quadrant_size * 2) - 1) :
                                    i < WLen(w)}, Rat(13, 10))
               [] OTHER -> Ok(w)
    ELSE Ok(w)

\* a variant that evaluates `range_len - 5` for every index
BloodTypeB_eager(w, range_len, checks) ==
    IF range_len >= 1 /\ range_len < 5
    THEN IF checks THEN Panicked(w)
         ELSE ScaleAt(w, {i \in 1..range_len : i < 5}, Rat(13, 10))
    ELSE ScaleAt(w, {i \in 1..range_len : i < 5 \/ i > range_len - 5}, Rat(13, 10))

\* Blood type B: `i < 5 || i > range_len - 5`.  The right operand is evaluated
\* only where i < 5 is false; there `range_len - 5` on usize underflows when
\* range_len < 5: a panic with overflow checks, and without them a wrap to
\* 2^64 + range_len - 5, which no index exceeds.
BloodTypeB_apply(w, range_len, checks) ==
    LET evaluated == {i \in 1..range_len : ~(i < 5)}
    IN  IF evaluated # {} /\ range_len < 5
        THEN IF checks THEN Panicked(w)
             ELSE ScaleAt(w, {i \in 1..range_len : i < 5}, Rat(13, 10))
        ELSE ScaleAt(w, {i \in 1..range_len : i < 5 \/ i > range_len - 5}, Rat(13, 10))

\* a variant where O starts one index above range_len / 2
BloodTypeBranch_above(bt, w, checks) ==
    LET range_len == WLen(w) - 1
    IN  CASE bt = "A" ->
               ScaleAt(w, (range_len \div 3)..((range_len * 2) \div 3), Rat(125, 100))
          [] bt = "B" -> BloodTypeB_apply(w, range_len, checks)
          [] bt = "O" -> ScaleAt(w, ((range_len \div 2) + 1)..range_len, Rat(12, 10))
          [] bt = "AB" ->
               ScaleAt(w, {i \in 1..range_len : i > 9 /\ i % 11 = 0}, Rat(15, 10))

\* the match on the blood type, lines 327-362
BloodTypeBranch(bt, w, checks) ==
    LET range_len == WLen(w) - 1
    IN  CASE bt = "A" ->
               ScaleAt(w, (range_len \div 3)..((range_len * 2) \div 3), Rat(125, 100))
          [] bt = "B" -> BloodTypeB_apply(w, range_len, checks)
          [] bt = "O" -> ScaleAt(w, (range_len \div 2)..range_len, Rat(12, 10))
          [] bt = "AB" ->
               ScaleAt(w, {i \in 1..range_len : i > 9 /\ i % 11 = 0}, Rat(15, 10))

\* a variant that takes an absent blood type for O
BloodTypeModule_default(ctx, w, checks) ==
    BloodTypeBranch(IF IsSome(ctx.blood_type) THEN Unwrap(ctx.blood_type) ELSE "O", w, checks)

BloodTypeModule_apply(ctx, w, checks) ==
    IF IsSome(ctx.blood_type) THEN BloodTypeBranch(Unwrap(ctx.blood_type), w, checks)
    ELSE Ok(w)

\* GameType::Loto7: the range 1..=37 and 7 picks
Loto7Max == 37

Loto7Picks == 7

\* the largest index the model meets
MaxIndex == IF MaxMax > Loto7Max THEN MaxMax ELSE Loto7Max

\* noise = (x % 100) as f64 / 1000.0 for every seed and index of the model
NoiseTable == [seed \in ChaosSeeds |-> [i \in 1..MaxIndex |-> ChaosNoise(seed, i)]]

\* a variant that takes the noise away
ChaosModule_subtract(w, seed) ==
    Ok([i \in DOMAIN w |->
          IF i \in 1..(WLen(w) - 1) THEN RAdd(w[i], Rat(0 - NoiseTable[seed][i], 1000))
          ELSE w[i]])

ChaosModule_apply(w, seed) ==
    Ok([i \in DOMAIN w |->
          IF i \in 1..(WLen(w) - 1) THEN RAdd(w[i], Rat(NoiseTable[seed][i], 1000)) ELSE w[i]])

StatsModule_apply(ctx, w) ==
    LET day == ctx.now_utc.day
        month == ctx.now_utc.month
    IN  ScaleAt(w, {i \in 1..(WLen(w) - 1) : i = day \/ i = month \/ i = day + month},
                Rat(15, 10))

-----------------------------------------------------------------------------
(* The engine, oracle.rs *)

\* a variant that registers the lunar-phase module before the elemental one
OracleEngine_swapped ==
    [modules |-> <<"WesternAstrology", "ChineseZodiacModule", "MoonPhaseModule",
                   "SanmeiModule", "RokuyoModule", "FengShuiModule",
                   "BloodTypeModule", "ChaosModule", "StatsModule">>]

\* OracleEngine::new: the modules in registration order
OracleEngine_new ==
    [modules |-> <<"WesternAstrology", "ChineseZodiacModule", "SanmeiModule",
                   "MoonPhaseModule", "RokuyoModule", "FengShuiModule",
                   "BloodTypeModule", "ChaosModule", "StatsModule">>]

\* module.apply(ctx, &mut weights), by dynamic dispatch on the module
ModuleApply(m, ctx, w, checks, seed) ==
    CASE m = "WesternAstrology" -> WesternAstrology_apply(ctx, w)
      [] m = "ChineseZodiacModule" -> ChineseZodiacModule_apply(ctx, w)
      [] m = "SanmeiModule" -> SanmeiModule_apply(ctx, w)
      [] m = "MoonPhaseModule" -> MoonPhaseModule_apply(ctx, w)
      [] m = "RokuyoModule" -> RokuyoModule_apply(ctx, w)
      [] m = "FengShuiModule" -> FengShuiModule_apply(ctx, w)
      [] m = "BloodTypeModule" -> BloodTypeModule_apply(ctx, w, checks)
      [] m = "ChaosModule" -> ChaosModule_apply(w, seed)
      [] m = "StatsModule" -> StatsModule_apply(ctx, w)

\* a variant that leaves the unused slot at 0.0
UniformWeights_unused(max) == [i \in 0..max |-> IF i = 0 THEN RInt(0) ELSE RInt(1)]

\* vec![1.0; range_len + 1]
UniformWeights(max) == [i \in 0..max |-> RInt(1)]

\* the weights the first k modules leave of the uniform vector: the loop
\* `for module in &self.modules` of a divine call on ctx
RECURSIVE divine_weights(_, _, _, _)
divine_weights(ctx, k, checks, seed) ==
    IF k = 0 THEN UniformWeights(ctx.max)
    ELSE ModuleApply(OracleEngine_new.modules[k], ctx,
                     divine_weights(ctx, k - 1, checks, seed), checks, seed).w

\* a variant without skip(1)
WeightSum_all(w) == RAdd(w[0], RSumFrom(w, WLen(w) - 1))

\* weights.iter().skip(1).sum()
WeightSum(w) == RSumFrom(w, WLen(w) - 1)

\* mean = sum / range_len; if mean > 0.0 { every w /= mean }
NormalizeWeights(w, range_len) ==
    LET mean == RDiv(WeightSum(w), RInt(range_len))
    IN  IF RPos(mean) THEN [i \in DOMAIN w |-> RDiv(w[i], mean)] ELSE w

\* weights.into_iter().skip(1).collect()
ValidWeights(w) == [k \in 1..(WLen(w) - 1) |-> w[k]]

SeqSum(v, k) == RSumRange(v, 1, k)

\* rand's WeightedIndex::new: an error for no items, for a negative weight
\* and for a total of zero
WeightedIndex_new(v) ==
    IF Len(v) = 0 \/ (\E k \in 1..Len(v) : RNeg(v[k])) \/ ~RPos(SeqSum(v, Len(v)))
    THEN [err |-> TRUE, weights |-> v]
    ELSE [err |-> FALSE, weights |-> v]

\* dist.sample(&mut rng): an index (0-based) of positive weight
SampleSupport(d) == {idx \in 0..(Len(d.weights) - 1) : RPos(d.weights[idx + 1])}

\* result.contains(&number)
Contains(seq, x) == \E k \in 1..Len(seq) : seq[k] = x

RECURSIVE InsertSorted(_, _)
InsertSorted(seq, x) ==
    IF seq = <<>> THEN <<x>>
    ELSE IF x <= Head(seq) THEN <<x>> \o seq
    ELSE <<Head(seq)>> \o InsertSorted(Tail(seq), x)

\* a variant that leaves the order as it is
VecSort_none(seq) == seq

\* Vec::sort: ascending
RECURSIVE VecSort(_)
VecSort(seq) == IF seq = <<>> THEN <<>> ELSE InsertSorted(VecSort(Tail(seq)), Head(seq))

-----------------------------------------------------------------------------
(* Inputs *)

Algorithm == {"Pure", "Spread", "Cluster", "Favorite", "Oracle"}

\* one date per branch of the three birth-date modules: k = 0 is 1984-03-25
\* (Aries, Rat, Wood), then Taurus/Tiger/Fire, Gemini/Dragon/Earth,
\* Cancer/Horse/Metal, Leo/Monkey/Water
BirthDates ==
    {[year |-> 1984 + (2 * k), month |-> ((2 + k) % 12) + 1, day |-> 25] :
        k \in 0..(NumBirthDates - 1)}

\* the days 6, 11, 16, 21, 26, 31 meet every day category and every lunar phase
NowDays(k) == {d \in 1..31 : \E j \in 1..k : d = (5 * j) + 1}

NowDates == {[day |-> d, month |-> 1] : d \in NowDays(NumNowDays)}

OptionOf(S) == {None} \cup {Some(x) : x \in S}

\* the state every specification starts a divine call or a batch from
Blank(c, now, checks) ==
    /\ cli = c
    /\ now_utc = now
    /\ overflow_checks = checks
    /\ draw = 1
    /\ dist = None
    /\ result = <<>>
    /\ number = 0
    /\ ticket = <<>>

-----------------------------------------------------------------------------
(* main, main.rs *)

\* a variant that prompts in every mode
BuildContext_always ==
    /\ pc = "main"
    /\ stdin_reads' = stdin_reads + 1
    /\ IF cli.algo = "Oracle"
       THEN \E resonance \in Resonances(NumResonances) :
              oracle_ctx' = Some(from_args(cli.max, cli.picks, cli.birth_date,
                                          cli.blood_type, cli.aura_color, now_utc,
                                          resonance))
       ELSE oracle_ctx' = None
    /\ pc' = "init_engine"
    /\ UNCHANGED <<cli, now_utc, overflow_checks, chaos_seed, oracle_engine, draw, weights,
                   module_idx, trace, dist, result, number, ticket>>

\* lines 203-213: the context is built in oracle mode only; from_args
\* prompts and reads one line of the console (oracle.rs, line 150)
BuildContext ==
    /\ pc = "main"
    /\ IF cli.algo = "Oracle"
       THEN /\ stdin_reads' = stdin_reads + 1
            /\ \E resonance \in Resonances(NumResonances) :
                  oracle_ctx' = Some(from_args(cli.max, cli.picks, cli.birth_date,
                                              cli.blood_type, cli.aura_color, now_utc,
                                              resonance))
       ELSE /\ stdin_reads' = stdin_reads
            /\ oracle_ctx' = None
    /\ pc' = "init_engine"
    /\ UNCHANGED <<cli, now_utc, overflow_checks, chaos_seed,
                   oracle_engine, draw, weights,
                   module_idx, trace, dist, result, number, ticket>>

\* lines 245-248
InitEngine ==
    /\ pc = "init_engine"
    /\ oracle_engine' = IF IsSome(oracle_ctx) THEN Some(OracleEngine_new) ELSE None
    /\ pc' = "loop"
    /\ UNCHANGED <<cli, now_utc, overflow_checks, stdin_reads, chaos_seed,
                   oracle_ctx, draw, weights,
                   module_idx, trace, dist, result, number, ticket>>

UsesOracle == cli.algo = "Oracle" /\ IsSome(oracle_engine) /\ IsSome(oracle_ctx)

\* every ordering nums.shuffle can leave of range.collect()
Shuffles(max) == {p \in [1..max -> 1..max] : \A a, b \in 1..max : p[a] = p[b] => a = b}

\* Vec::truncate
Truncate(seq, len) == IF len < Len(seq) THEN SubSeq(seq, 1, len) ELSE seq

\* pure_ticket, for the algorithms that fall back to it
pure_ticket ==
    /\ pc = "loop"
    /\ draw <= cli.n
    /\ ~UsesOracle
    /\ \E nums \in Shuffles(cli.max) : ticket' = VecSort(Truncate(nums, cli.picks))
    /\ pc' = "print"
    /\ UNCHANGED <<cli, now_utc, overflow_checks, stdin_reads, chaos_seed,
                   oracle_ctx, oracle_engine, draw,
                   weights, module_idx, trace, dist, result, number>>

\* generate_ticket in oracle mode enters divine: lines 372-373
DivineBegin ==
    /\ pc = "loop"
    /\ draw <= cli.n
    /\ UsesOracle
    /\ weights' = UniformWeights(Unwrap(oracle_ctx).max)
    /\ module_idx' = 0
    /\ trace' = <<>>
    /\ pc' = "rules"
    /\ UNCHANGED <<cli, now_utc, overflow_checks, stdin_reads, chaos_seed,
                   oracle_ctx, oracle_engine, draw,
                   dist, result, number, ticket>>

\* one iteration of `for module in &self.modules`
ApplyModule ==
    /\ pc = "rules"
    /\ module_idx < Len(Unwrap(oracle_engine).modules)
    /\ LET m == Unwrap(oracle_engine).modules[module_idx + 1]
       IN  \E seed \in (IF m = "ChaosModule" THEN ChaosSeeds ELSE {<<>>}) :
             LET r == ModuleApply(m, Unwrap(oracle_ctx), weights, overflow_checks, seed)
             IN  /\ weights' = r.w
                 /\ pc' = IF r.panic THEN "panicked" ELSE "rules"
                 /\ module_idx' = IF r.panic THEN module_idx ELSE module_idx + 1
                 /\ trace' = IF r.panic THEN trace ELSE Append(trace, m)
                 /\ chaos_seed' = IF m = "ChaosModule" THEN Some(seed) ELSE chaos_seed
    /\ UNCHANGED <<cli, now_utc, overflow_checks, stdin_reads,
                   oracle_ctx, oracle_engine, draw,
                   dist, result, number, ticket>>

\* lines 385-392
Normalize ==
    /\ pc = "rules"
    /\ module_idx = Len(Unwrap(oracle_engine).modules)
    /\ weights' = NormalizeWeights(weights, Unwrap(oracle_ctx).max)
    /\ trace' = Append(trace, "normalize")
    /\ pc' = "build"
    /\ UNCHANGED <<cli, now_utc, overflow_checks, stdin_reads, chaos_seed,
                   oracle_ctx, oracle_engine, draw,
                   module_idx, dist, result, number, ticket>>

\* lines 400-410: WeightedIndex::new(&valid_weights).unwrap()
BuildDist ==
    /\ pc = "build"
    /\ LET d == WeightedIndex_new(ValidWeights(weights))
       IN  /\ pc' = IF d.err THEN "panicked" ELSE "sample"
           /\ dist' = IF d.err THEN None ELSE Some(d)
    /\ weights' = <<>>
    /\ chaos_seed' = None
    /\ result' = <<>>
    /\ UNCHANGED <<cli, now_utc, overflow_checks, stdin_reads,
                   oracle_ctx, oracle_engine, draw,
                   module_idx, trace, number, ticket>>

\* the body of `while result.len() < ctx.count`, lines 412-419
\* a variant with the negation dropped
PushIfNew_inverted(res, n) == IF Contains(res, n) THEN Append(res, n) ELSE res

PushIfNew(res, n) == IF ~Contains(res, n) THEN Append(res, n) ELSE res

Sample(idx) ==
    /\ pc = "sample"
    /\ Len(result) < Unwrap(oracle_ctx).count
    /\ idx \in SampleSupport(Unwrap(dist))
    /\ number' = idx + 1
    /\ result' = PushIfNew(result, idx + 1)
    /\ trace' = IF result' # result THEN Append(trace, "sample") ELSE trace
    /\ UNCHANGED <<cli, now_utc, overflow_checks, stdin_reads, chaos_seed,
                   pc, oracle_ctx, oracle_engine, draw,
                   weights, module_idx, dist, ticket>>

\* lines 421-432: the loop is left, the result sorted and returned
SortReturn ==
    /\ pc = "sample"
    /\ ~(Len(result) < Unwrap(oracle_ctx).count)
    /\ ticket' = VecSort(result)
    /\ trace' = Append(trace, "sort")
    /\ pc' = "print"
    /\ result' = <<>>
    /\ number' = 0
    /\ dist' = None
    /\ module_idx' = 0
    /\ UNCHANGED <<cli, now_utc, overflow_checks, stdin_reads, chaos_seed,
                   oracle_ctx, oracle_engine, draw, weights>>

\* lines 253-265: the ticket is printed and the loop goes on
PrintTicket ==
    /\ pc = "print"
    /\ draw' = draw + 1
    /\ ticket' = <<>>
    /\ pc' = "loop"
    /\ UNCHANGED <<cli, now_utc, overflow_checks, stdin_reads, chaos_seed,
                   oracle_ctx, oracle_engine, weights,
                   module_idx, trace, dist, result, number>>

\* line 268
Exit ==
    /\ pc = "loop"
    /\ draw > cli.n
    /\ pc' = "done"
    /\ UNCHANGED <<cli, now_utc, overflow_checks, stdin_reads, chaos_seed,
                   oracle_ctx, oracle_engine, draw,
                   weights, module_idx, trace, dist, result, number, ticket>>

-----------------------------------------------------------------------------
(* The batch specification: main with a bounded command line *)

BatchFacts ==
    {[birth_date |-> b, blood_type |-> t, aura_color |-> a] :
        b \in OptionOf({d \in BirthDates : d.year = 1984}),
        t \in OptionOf(BloodType),
        a \in OptionOf({"Gold", "Black"})}

CliArgs ==
    {[algo |-> al, max |-> m, picks |-> k, n |-> n,
      birth_date |-> f.birth_date, blood_type |-> f.blood_type, aura_color |-> f.aura_color] :
        al \in Algorithm, m \in 1..MaxSampleMax, k \in 1..MaxSampleMax, n \in 1..MaxN,
        f \in BatchFacts}

\* picks <= max, and the oracle facts are given in oracle mode only
ValidCli ==
    {x \in CliArgs : x.picks <= x.max /\
                     (x.algo # "Oracle" =>
                        /\ x.birth_date = None
                        /\ x.blood_type = None
                        /\ x.aura_color = None)}

\* main starts with a command line of C
StartWith(C) ==
    /\ \E c \in C, now \in {x \in NowDates : x.day \in NowDays(NumBatchDays)},
          checks \in BOOLEAN : Blank(c, now, checks)
    /\ pc = "main"
    /\ stdin_reads = 0
    /\ chaos_seed = None
    /\ oracle_ctx = None
    /\ oracle_engine = None
    /\ weights = <<>>
    /\ module_idx = 0
    /\ trace = <<>>

Init == StartWith(ValidCli)

Next ==
    \/ BuildContext
    \/ InitEngine
    \/ pure_ticket
    \/ DivineBegin
    \/ ApplyModule
    \/ Normalize
    \/ BuildDist
    \/ \E idx \in 0..(MaxSampleMax - 1) : Sample(idx)
    \/ SortReturn
    \/ PrintTicket
    \/ Exit

Spec == Init /\ [][Next]_vars

\* one oracle ticket under fair sampling: an index of positive weight that
\* stays drawable is drawn in the end, and the code after the loop runs
FairInit == StartWith({x \in ValidCli : x.algo = "Oracle" /\ x.n = 1})

FairNext ==
    \/ BuildContext
    \/ InitEngine
    \/ DivineBegin
    \/ ApplyModule
    \/ Normalize
    \/ BuildDist
    \/ \E idx \in 0..(MaxSampleMax - 1) : Sample(idx)
    \/ SortReturn
    \/ PrintTicket
    \/ Exit

FairSpec ==
    /\ FairInit
    /\ [][FairNext]_vars
    /\ \A idx \in 0..(MaxSampleMax - 1) : WF_vars(Sample(idx))
    /\ WF_vars(SortReturn)

-----------------------------------------------------------------------------
(* The accumulator specification: the module loop of one divine call,       *)
(* started in the state DivineBegin leaves, over a wider set of facts        *)

RuleCliArgs ==
    {[algo |-> "Oracle", max |-> m, picks |-> 1, n |-> 1,
      birth_date |-> b, blood_type |-> t, aura_color |-> a] :
        m \in 1..MaxMax, b \in OptionOf(BirthDates), t \in OptionOf(BloodType),
        a \in OptionOf(AuraColor)}

RuleInit ==
    /\ \E c \in RuleCliArgs, now \in NowDates, checks \in BOOLEAN,
          resonance \in Resonances(1) :
          /\ Blank(c, now, checks)
          /\ oracle_ctx = Some(from_args(c.max, c.picks, c.birth_date, c.blood_type,
                                         c.aura_color, now, resonance))
          /\ weights = UniformWeights(c.max)
    /\ stdin_reads = 1
    /\ chaos_seed = None
    /\ oracle_engine = Some(OracleEngine_new)
    /\ module_idx = 0
    /\ trace = <<>>
    /\ pc = "rules"

RuleNext == ApplyModule

RuleSpec == RuleInit /\ [][RuleNext]_vars

-----------------------------------------------------------------------------
(* The sampler specification: lines 385-433 of divine as a function of the   *)
(* weight vector the module loop leaves, zero weights included               *)

SamplerWeights(max) == [0..max -> {Rat(k, 2) : k \in 0..MaxWeightNum}]

SamplerInit ==
    /\ \E m \in 1..MaxSamplerMax, k \in 1..MaxSamplerMax, resonance \in Resonances(1) :
          /\ k <= m
          /\ Blank([algo |-> "Oracle", max |-> m, picks |-> k, n |-> 1,
                    birth_date |-> None, blood_type |-> None, aura_color |-> None],
                   [day |-> 6, month |-> 1], FALSE)
          /\ oracle_ctx = Some(from_args(m, k, None, None, None, [day |-> 6, month |-> 1],
                                         resonance))
          /\ weights \in SamplerWeights(m)
    /\ stdin_reads = 1
    /\ \E s \in ChaosSeeds : chaos_seed = Some(s)
    /\ oracle_engine = Some(OracleEngine_new)
    /\ module_idx = Len(OracleEngine_new.modules)
    /\ trace = OracleEngine_new.modules
    /\ pc = "rules"

SamplerNext ==
    \/ Normalize
    \/ BuildDist
    \/ \E idx \in 0..(MaxSamplerMax - 1) : Sample(idx)
    \/ SortReturn

SamplerSpec == SamplerInit /\ [][SamplerNext]_vars

-----------------------------------------------------------------------------
(* The scenario specification: one divine call of a Loto7 game (max = 37,    *)
(* count = 7) with blood type O or none, up to the vector the sampler gets   *)

ScenarioInit ==
    /\ \E t \in {None, Some("O")}, now \in NowDates, checks \in BOOLEAN,
          resonance \in Resonances(1) :
          /\ Blank([algo |-> "Oracle", max |-> Loto7Max, picks |-> Loto7Picks, n |-> 1,
                    birth_date |-> None, blood_type |-> t, aura_color |-> None],
                   now, checks)
          /\ oracle_ctx = Some(from_args(Loto7Max, Loto7Picks, None, t, None, now,
                                         resonance))
    /\ weights = UniformWeights(Loto7Max)
    /\ stdin_reads = 1
    /\ chaos_seed = None
    /\ oracle_engine = Some(OracleEngine_new)
    /\ module_idx = 0
    /\ trace = <<>>
    /\ pc = "rules"

ScenarioNext ==
    \/ ApplyModule
    \/ Normalize
    \/ BuildDist

ScenarioSpec == ScenarioInit /\ [][ScenarioNext]_vars

-----------------------------------------------------------------------------
(* Properties *)

Ctx == Unwrap(oracle_ctx)

\* exactly count numbers, each in [1, max], strictly ascending (so distinct)
ValidTicket(t, max, count) ==
    /\ Len(t) = count
    /\ \A k \in 1..Len(t) : t[k] \in 1..max
    /\ \A k \in 1..(Len(t) - 1) : t[k] < t[k + 1]

NoDuplicates(seq) == \A a, b \in 1..Len(seq) : seq[a] = seq[b] => a = b

AllOptionalAbsent ==
    /\ IsSome(oracle_ctx)
    /\ Ctx.birth_date = None
    /\ Ctx.blood_type = None
    /\ Ctx.aura_color = None

\* C1: generate_ticket never panics, and the ticket it returns, by divine or
\* by pure_ticket, has exactly count numbers, each in [1, max], pairwise
\* distinct and ascending.
C1_ValidTicket ==
    /\ pc # "panicked"
    /\ pc = "print" => ValidTicket(ticket, cli.max, cli.picks)

C1_Witness ==
    /\ pc = "print"
    /\ cli.algo = "Oracle"
    /\ cli.blood_type = Some("B")
    /\ cli.picks = cli.max
    /\ cli.max >= 2
    /\ overflow_checks

C3_LoopTerminates ==
    /\ [](pc = "sample" => NoDuplicates(result) /\ Len(result) <= Ctx.count)
    /\ [][(pc = "sample" /\ pc' = "sample" /\ Contains(result, number'))
            => result' = result]_vars
    /\ (pc = "sample") ~> (pc = "print")

C3_Witness ==
    /\ pc = "sample"
    /\ Ctx.count = Ctx.max
    /\ Len(result) >= 2
    /\ Contains(result, number)
    /\ result[Len(result)] # number

\* C4: during the module loop, after each module and after all nine, every
\* weight at index 1..max is strictly greater than 0.
C4_WeightsPositive ==
    pc \in {"rules", "panicked"} => \A i \in 1..Ctx.max : RPos(weights[i])

C4_Witness ==
    /\ pc = "rules"
    /\ module_idx = 9
    /\ Ctx.max >= 10
    /\ Ctx.rokuyo = "Butsumetsu"
    /\ \E i \in 1..Ctx.max : RLess(weights[i], RInt(1))

\* the optional fact a module is driven by is absent
FactAbsent(m, ctx) ==
    \/ m \in {"WesternAstrology", "ChineseZodiacModule", "SanmeiModule"} /\ ctx.birth_date = None
    \/ m = "FengShuiModule" /\ ctx.aura_color = None
    \/ m = "BloodTypeModule" /\ ctx.blood_type = None

\* C5: a module whose input fact is absent (birth date for the sign, animal
\* and elemental rules, aura color, blood type) leaves every weight unchanged.
C5_AbsentFactNoOp ==
    [][(pc = "rules" /\ module_idx < Len(Unwrap(oracle_engine).modules)
          /\ FactAbsent(Unwrap(oracle_engine).modules[module_idx + 1], Ctx))
            => (weights' = weights /\ pc' = "rules")]_vars

C5_Witness ==
    /\ pc = "rules"
    /\ module_idx = 7
    /\ AllOptionalAbsent
    /\ \E i \in 1..Ctx.max : weights[i] # RInt(1)

\* the roster of the nine rules: sign, animal, elemental, lunar phase, day
\* category, aura color, blood type, entropy, day/month echo
RuleRoster ==
    <<"WesternAstrology", "ChineseZodiacModule", "SanmeiModule", "MoonPhaseModule",
      "RokuyoModule", "FengShuiModule", "BloodTypeModule", "ChaosModule", "StatsModule">>

ExpectedTrace(count) ==
    RuleRoster \o <<"normalize">> \o [k \in 1..count |-> "sample"] \o <<"sort">>

IsPrefix(a, b) == Len(a) <= Len(b) /\ a = SubSeq(b, 1, Len(a))

Occurs(seq, x) == \E k \in 1..Len(seq) : seq[k] = x

\* C6: in every divine call the nine rules run once each in roster order,
\* then the normalization, then the samples, then the sort; no draw happens
\* before the normalization or after the sort.
C6_FixedOrder ==
    /\ IsPrefix(trace, ExpectedTrace(cli.picks))
    /\ pc = "build" => trace = RuleRoster \o <<"normalize">>
    /\ pc = "sample" => Occurs(trace, "normalize") /\ ~Occurs(trace, "sort")
    /\ pc # "sample" => number = 0
    /\ (pc = "print" /\ cli.algo = "Oracle") => trace = ExpectedTrace(cli.picks)

C6_Witness ==
    /\ pc = "print"
    /\ cli.algo = "Oracle"
    /\ cli.picks >= 2
    /\ draw = 2
    /\ trace = ExpectedTrace(cli.picks)

\* C7: no module touches the slot at index 0.
C7_SlotZeroUntouched == weights[0] = RInt(1)

\* C8: no module panics: no index leaves the vector and no unsigned
\* subtraction underflows, whatever the facts and the build.
C8_NoRulePanics == pc # "panicked"

C8_Witness ==
    /\ pc = "rules"
    /\ module_idx >= 7
    /\ Ctx.blood_type = Some("B")
    /\ Ctx.max < 5
    /\ overflow_checks
    /\ weights[Ctx.max] # RInt(1)

\* C9 as stated: with every optional fact absent the weights handed to the
\* sampler are equal at every index.
C9_UniformWhenNoFacts ==
    (AllOptionalAbsent /\ pc = "sample")
        => \A i, j \in 1..Ctx.max : Unwrap(dist).weights[i] = Unwrap(dist).weights[j]

\* C9 amended: with every optional fact absent the weights are all 1.0 up to
\* and including the elemental rule, and every number of 1..max can be drawn
\* from the weights handed to the sampler.
C9_SupportWhenNoFacts ==
    AllOptionalAbsent =>
        /\ (pc = "rules" /\ module_idx <= 3) => weights = UniformWeights(Ctx.max)
        /\ pc = "sample" => SampleSupport(Unwrap(dist)) = 0..(Ctx.max - 1)

C9_Witness ==
    /\ AllOptionalAbsent
    /\ pc = "sample"
    /\ \E i, j \in 1..Ctx.max : Unwrap(dist).weights[i] # Unwrap(dist).weights[j]

\* every weight multiplied by c
ScaledBy(w, c) == [i \in DOMAIN w |-> RMul(w[i], c)]

Scales == {Rat(k, 2) : k \in 1..MaxScale}

\* the sum of the weights at 1..max
SumOfCandidates(w) == RSumFrom(w, Ctx.max)

\* C10: the normalization leaves weights of sum max (mean 1) at 1..max, the
\* same as it leaves for the vector scaled by any positive c; with a mean of
\* zero it leaves the weights as they are.
C10_Normalization ==
    [][(pc = "rules" /\ pc' = "build") =>
          IF RPos(SumOfCandidates(weights))
          THEN /\ SumOfCandidates(weights') = RInt(Ctx.max)
               /\ \A c \in Scales : \A i \in 1..Ctx.max :
                     NormalizeWeights(ScaledBy(weights, c), Ctx.max)[i] = weights'[i]
          ELSE weights' = weights]_vars

C10_Witness ==
    /\ pc = "build"
    /\ Ctx.max >= 2
    /\ SumOfCandidates(weights) = RInt(Ctx.max)
    /\ weights[1] # weights[2]
    /\ weights[0] # RInt(1)

\* the same facts without the blood type
WithoutBlood(ctx) == [ctx EXCEPT !.blood_type = None]

\* C11 as stated: with max = 37, count = 7 and blood type O, each weight at
\* 19..37 of the vector handed to the sampler is 1.2 times the weight the run
\* without a blood type (same other facts, same entropy seed) hands over.
C11_RatioAtSampler ==
    (pc = "build" /\ Ctx.max = Loto7Max /\ Ctx.count = Loto7Picks
        /\ Ctx.blood_type = Some("O")) =>
        LET other == NormalizeWeights(divine_weights(WithoutBlood(Ctx), 9, overflow_checks,
                                                     Unwrap(chaos_seed)), Ctx.max)
        IN  \A i \in 19..37 : weights[i] = RMul(Rat(12, 10), other[i])

\* C11 amended: the vector the blood-type rule leaves is, at each index of
\* 18..37, 1.2 times the vector the run without a blood type has at that
\* point, and equal to it at every other index; the run without a blood type
\* is the one the rules compute from those facts.
C11_RatioAfterBloodRule ==
    (pc = "rules" /\ module_idx <= 7 /\ Ctx.max = Loto7Max /\ Ctx.count = Loto7Picks) =>
        LET other == divine_weights(WithoutBlood(Ctx), module_idx, overflow_checks, <<>>)
        IN  IF Ctx.blood_type = Some("O") /\ module_idx = 7
            THEN /\ \A i \in 18..37 : weights[i] = RMul(Rat(12, 10), other[i])
                 /\ \A i \in 0..17 : weights[i] = other[i]
            ELSE weights = other

C11_Witness ==
    /\ pc = "rules"
    /\ module_idx = 7
    /\ Ctx.max = Loto7Max
    /\ Ctx.count = Loto7Picks
    /\ Ctx.blood_type = Some("O")
    /\ LET other == divine_weights(WithoutBlood(Ctx), 7, overflow_checks, <<>>)
       IN  /\ other[37] # RInt(1)
           /\ weights[37] = RMul(Rat(12, 10), other[37])
           /\ weights[17] = other[17]

\* a - b
RSub(a, b) == RAdd(a, <<0 - b[1], b[2]>>)

\* the seed 0x55D0C8A3B2A0 and the values of (x % 100) the formula gives for
\* it at i = 1..5, computed in 64-bit unsigned arithmetic
KnownSeed == <<160, 178, 163, 200, 208, 85, 0, 0>>

KnownNoise == <<5, 98, 42, 22, 27>>

\* C12: the entropy rule adds to each weight at 1..max the noise n/1000 with
\* n = (x % 100) in 0..99 of the hash of seed and index, so it lowers no
\* weight and leaves every weight above 0; slot 0 is not touched.
C12_EntropyOnlyAdds ==
    [][(pc = "rules" /\ module_idx = 7 /\ module_idx' = 8) =>
          /\ IsSome(chaos_seed')
          /\ weights'[0] = weights[0]
          /\ \A i \in 1..Ctx.max :
                LET d == RSub(weights'[i], weights[i])
                IN  /\ 1000 % d[2] = 0
                    /\ (d[1] * (1000 \div d[2])) \in 0..99
                    /\ RPos(weights'[i])
                    /\ (chaos_seed' = Some(KnownSeed) /\ i <= Len(KnownNoise))
                          => d = Rat(KnownNoise[i], 1000)]_vars

C12_Witness ==
    /\ pc = "rules"
    /\ module_idx = 8
    /\ chaos_seed = Some(KnownSeed)
    /\ Ctx.max >= 10
    /\ AllOptionalAbsent
    /\ \E i \in 1..Ctx.max : RLess(RInt(1), weights[i])

\* C13: the console is read once, while the context is built and before
\* the first ticket, in oracle mode, and never in another mode; no read
\* happens in the ticket loop, whatever the size of the batch.
C13_SingleRead ==
    /\ pc = "main" => stdin_reads = 0
    /\ cli.algo # "Oracle" => stdin_reads = 0
    /\ (cli.algo = "Oracle" /\ pc # "main") => stdin_reads = 1

C13_Witness ==
    /\ cli.algo = "Oracle"
    /\ cli.n >= 2
    /\ draw = 2
    /\ pc = "sample"
    /\ result # <<>>
    /\ stdin_reads = 1

\* C14: the vector the rules leave is a function of the Context Facts (the
\* host fingerprint included): any run of the same rules on the same facts,
\* whatever the entropy rule reads in it, leaves the same vector.
C14_FunctionOfFacts ==
    pc = "rules" =>
        \A s \in ChaosSeeds :
            weights = divine_weights(Ctx, module_idx, overflow_checks, s)

\* C15: every divine call of a batch starts from a new vector with 1.0 in
\* every slot, and no step after the engine is built changes the rule list
\* or the Context Facts; so in every call, first or later, the vector is
\* the one the rules applied so far compute from the facts and the seed.
C15_FreshVector ==
    /\ [][(pc = "loop" /\ pc' = "rules") => weights' = [i \in 0..cli.max |-> <<1, 1>>]]_vars
    /\ [][(pc \notin {"main", "init_engine"})
            => (oracle_ctx' = oracle_ctx /\ oracle_engine' = oracle_engine)]_vars
    /\ [](pc = "rules" =>
            weights = divine_weights(Ctx, module_idx, overflow_checks,
                                     IF IsSome(chaos_seed) THEN Unwrap(chaos_seed) ELSE <<>>))

C15_Witness ==
    /\ cli.algo = "Oracle"
    /\ draw = 2
    /\ pc = "rules"
    /\ module_idx = 0
    /\ cli.max >= 2
    /\ weights = [i \in 0..cli.max |-> <<1, 1>>]

\* the vector the aura rule makes of w for the color c
AfterAura(c, w) == FengShuiModule_apply([Ctx EXCEPT !.aura_color = Some(c)], w).w

\* the slots in which the vectors v and w differ
ChangedSlots(v, w) == {i \in DOMAIN w : v[i] # w[i]}

Contiguous(S) == \A a, b \in S : a..b \subseteq S

MappedColors == {"Green", "Blue", "Red", "Gold"}

\* C16: the slots boosted for Green, Blue, Red and Gold are contiguous
\* ranges, pairwise disjoint, that together make up 1..max; each of these
\* colors multiplies the weights of its range by 1.3 and changes no other
\* slot; Purple, White and Black change nothing.
C16_Quadrants ==
    (pc = "rules" /\ module_idx = 6) =>
        LET before == divine_weights(Ctx, 5, overflow_checks, <<>>)
            after == [c \in AuraColor |-> AfterAura(c, before)]
            boosted == [c \in AuraColor |-> ChangedSlots(after[c], before)]
        IN  /\ \A c \in MappedColors :
                  /\ Contiguous(boosted[c])
                  /\ \A i \in boosted[c] : after[c][i] = RMul(Rat(13, 10), before[i])
            /\ \A c, d \in MappedColors : c # d => boosted[c] \cap boosted[d] = {}
            /\ UNION {boosted[c] : c \in MappedColors} = 1..Ctx.max
            /\ \A c \in AuraColor \ MappedColors : boosted[c] = {}
            /\ weights = IF IsSome(Ctx.aura_color) THEN after[Unwrap(Ctx.aura_color)]
                         ELSE before

\* the vector the day-category rule makes of w for the category r
AfterRokuyo(r, w) == RokuyoModule_apply([Ctx EXCEPT !.rokuyo = r], w).w

\* C17 as stated: exactly one of the six day categories changes no weight,
\* each of the others changes at least one, and the first half and the
\* second half are disjoint and make up 1..max.
C17_OneNoOp ==
    (pc = "rules" /\ module_idx = 5) =>
        LET before == divine_weights(Ctx, 4, overflow_checks, <<>>)
            changed == [r \in Rokuyo |-> ChangedSlots(AfterRokuyo(r, before), before)]
        IN  /\ Cardinality({r \in Rokuyo : changed[r] = {}}) = 1
            /\ changed["Senkatsu"] \cap changed["Senbu"] = {}
            /\ changed["Senkatsu"] \cup changed["Senbu"] = 1..Ctx.max

\* C17 amended: Tomobiki and Shakku change no weight; Taian multiplies the
\* even numbers by 1.15 (none when max = 1); Butsumetsu multiplies the first
\* and the last number by 0.8 when max >= 10 and changes nothing below;
\* Senkatsu multiplies the first half 1..(max+1)/2 - 1 by 1.2 (empty when
\* max <= 2) and Senbu the second half (max+1)/2..max, which is never empty;
\* the two halves are disjoint and make up 1..max.
C17_TwoNoOps ==
    (pc = "rules" /\ module_idx = 5) =>
        LET before == divine_weights(Ctx, 4, overflow_checks, <<>>)
            after == [r \in Rokuyo |-> AfterRokuyo(r, before)]
            changed == [r \in Rokuyo |-> ChangedSlots(after[r], before)]
            max == Ctx.max
            mid == (max + 1) \div 2
        IN  /\ changed["Tomobiki"] = {}
            /\ changed["Shakku"] = {}
            /\ changed["Taian"] = {i \in 1..max : i % 2 = 0}
            /\ \A i \in changed["Taian"] : after["Taian"][i] = RMul(Rat(115, 100), before[i])
            /\ changed["Butsumetsu"] = IF max >= 10 THEN {1, max} ELSE {}
            /\ \A i \in changed["Butsumetsu"] :
                  after["Butsumetsu"][i] = RMul(Rat(8, 10), before[i])
            /\ changed["Senkatsu"] = 1..(mid - 1)
            /\ changed["Senbu"] = mid..max
            /\ \A i \in changed["Senkatsu"] : after["Senkatsu"][i] = RMul(Rat(12, 10), before[i])
            /\ \A i \in changed["Senbu"] : after["Senbu"][i] = RMul(Rat(12, 10), before[i])
            /\ changed["Senbu"] # {}
            /\ (changed["Taian"] # {}) <=> (max >= 2)
            /\ (changed["Senkatsu"] # {}) <=> (max >= 3)
            /\ changed["Senkatsu"] \cap changed["Senbu"] = {}
            /\ changed["Senkatsu"] \cup changed["Senbu"] = 1..max
            /\ weights = after[Ctx.rokuyo]

C17_Witness ==
    /\ pc = "rules"
    /\ module_idx = 5
    /\ Ctx.rokuyo = "Senbu"
    /\ Ctx.max >= 10
    /\ LET before == divine_weights(Ctx, 4, overflow_checks, <<>>)
       IN  /\ weights[Ctx.max] = RMul(Rat(12, 10), before[Ctx.max])
           /\ weights[1] = before[1]

\* the vector the lunar-phase rule makes of w for the phase ph
AfterMoon(ph, w) == MoonPhaseModule_apply([Ctx EXCEPT !.moon_phase = ph], w).w

\* C18: New multiplies the lower half and Full the upper half, two disjoint
\* sets that make up 1..max; the factor of Waxing grows strictly with the
\* index up to 1.3 at max, and the factor of Waning falls strictly down to
\* 1.0 at max.
C18_LunarHalves ==
    (pc = "rules" /\ module_idx = 4) =>
        LET before == divine_weights(Ctx, 3, overflow_checks, <<>>)
            after == [ph \in MoonPhase |-> AfterMoon(ph, before)]
            factor == [ph \in MoonPhase |->
                         [i \in DOMAIN before |-> RDiv(after[ph][i], before[i])]]
            max == Ctx.max
        IN  /\ \A i \in ChangedSlots(after["New"], before) : factor["New"][i] = Rat(12, 10)
            /\ \A i \in ChangedSlots(after["Full"], before) : factor["Full"][i] = Rat(125, 100)
            /\ ChangedSlots(after["New"], before) \cap ChangedSlots(after["Full"], before) = {}
            /\ ChangedSlots(after["New"], before) \cup ChangedSlots(after["Full"], before)
                  = 1..max
            /\ \A i \in 1..(max - 1) :
                  /\ RLess(factor["Waxing"][i], factor["Waxing"][i + 1])
                  /\ RLess(factor["Waning"][i + 1], factor["Waning"][i])
            /\ factor["Waxing"][max] = Rat(13, 10)
            /\ factor["Waning"][max] = RInt(1)
            /\ weights = after[Ctx.moon_phase]

====
